---- MODULE Spec2Model ----
(***************************************************************************)
(* The early-stopping training loop of notebooks/lenet.ipynb               *)
(* (evaluate_model).  train_fn and valid_fn are external compiled          *)
(* functions: a call of train_fn is counted and its slice recorded, the    *)
(* mean validation error and the mean test error are inputs chosen at each *)
(* checkpoint.  Error rates are integers (thousandths); the comparison     *)
(* this < best * 0.995 is 1000 * this < 995 * best.  The validation and    *)
(* test sets hold at least one batch, so both means are numbers.  pc is    *)
(* the position in the loop; train_calls, slice, hist and ev record the    *)
(* calls made (hist: one record per validation, ev: events of the current  *)
(* iteration).                                                             *)
(***************************************************************************)
EXTENDS Integers, Sequences, FiniteSets

\* ---- bounds of the model ----
MaxEpochs == 4
MaxLoss == 200
MaxTest == 1

\* n_epochs argument
EpochChoices == 0..MaxEpochs
\* <<train_set_x.shape[0], batch_size>>
TrainShapes == {<<0, 1>>, <<1, 2>>, <<3, 2>>, <<3, 1>>, <<6801, 2>>, <<10003, 2>>}
\* values of np.mean(validation_losses)
Losses == (MaxLoss - 2)..MaxLoss
\* values of np.mean(test_losses)
TestScores == 0..MaxTest

\* ---- early-stopping parameters ----
InitialPatience == 10000
patience_increase == 2
ThresholdNum == 995
ThresholdDen == 1000
\* np.inf
Inf == -1

Min(a, b) == IF a < b THEN a ELSE b
Max(a, b) == IF a > b THEN a ELSE b

\* n_train_batches = train_set_x.shape[0] // batch_size
NTrainBatches(size, bs) == size \div bs

\* validation_frequency = min(n_train_batches, patience // 2)
ValidationFrequency(ntb, pat) == Min(ntb, pat \div 2)

\* mutation: the while condition forgets done_looping
WhileCond_IgnoreDone(ep, ne, done) == ep < ne

\* (epoch < n_epochs) and (not done_looping)
WhileCond(ep, ne, done) == (ep < ne) /\ ~done

\* mutation: the range runs one index too far
RangeHasNext_Inclusive(idx, ntb) == idx <= ntb

\* range(n_train_batches) still yields index idx
RangeHasNext(idx, ntb) == idx < ntb

\* mutation: iter is computed from the incremented epoch
IterOf_EpochBase(ep, idx, ntb) == ep * ntb + idx

\* iter = (epoch - 1) * n_train_batches + minibatch_index
IterOf(ep, idx, ntb) == (ep - 1) * ntb + idx

\* train_set_x[minibatch_index * batch_size:(minibatch_index + 1) * batch_size]
TrainSlice(idx, bs, size) == <<Min(idx * bs, size), Min((idx + 1) * bs, size)>>

\* mutation: the checkpoint test drops the + 1
IsCheckpoint_NoPlusOne(it, vf) == it % vf = 0

\* (iter + 1) % validation_frequency == 0
IsCheckpoint(it, vf) == (it + 1) % vf = 0

\* mutation: the comparison with the best loss is reversed
IsNewBest_Flipped(this, best) == IF best = Inf THEN TRUE ELSE this > best

\* mutation: the comparison with the best loss is not strict
IsNewBest_Le(this, best) == IF best = Inf THEN TRUE ELSE this <= best

\* this_validation_loss < best_validation_loss
IsNewBest(this, best) == IF best = Inf THEN TRUE ELSE this < best

\* mutation: the improvement threshold is not applied
IsSignificant_NoThreshold(this, best) ==
  IF best = Inf THEN TRUE ELSE this < best

\* this_validation_loss < best_validation_loss * improvement_threshold
IsSignificant(this, best) ==
  IF best = Inf THEN TRUE ELSE ThresholdDen * this < ThresholdNum * best

\* mutation: patience is replaced instead of raised
NewPatience_NoMax(pat, it) == it * patience_increase

\* mutation: patience_increase is added instead of multiplied
NewPatience_Add(pat, it) == Max(pat, it + patience_increase)

\* patience = max(patience, iter * patience_increase)
NewPatience(pat, it) == Max(pat, it * patience_increase)

\* patience <= iter
PatienceExhausted(pat, it) == pat <= it

VARIABLES
  n_epochs, train_size, batch_size,
  n_train_batches, validation_frequency,
  patience, best_validation_loss, best_iter, test_score,
  epoch, done_looping, minibatch_index, iter, this_validation_loss,
  pc,
  train_calls, slice, hist, ev

vars == <<n_epochs, train_size, batch_size, n_train_batches,
          validation_frequency, patience, best_validation_loss, best_iter,
          test_score, epoch, done_looping, minibatch_index, iter,
          this_validation_loss, pc, train_calls, slice, hist, ev>>

inputs == <<n_epochs, train_size, batch_size, n_train_batches,
            validation_frequency>>

\* state at the first test of the while condition
Init ==
  /\ n_epochs \in EpochChoices
  /\ \E sh \in TrainShapes :
       /\ train_size = sh[1]
       /\ batch_size = sh[2]
       /\ n_train_batches = NTrainBatches(sh[1], sh[2])
       /\ validation_frequency =
            ValidationFrequency(NTrainBatches(sh[1], sh[2]), InitialPatience)
  /\ patience = InitialPatience
  /\ best_validation_loss = Inf
  /\ best_iter = 0
  /\ test_score = 0
  /\ epoch = 0
  /\ done_looping = FALSE
  /\ minibatch_index = 0
  /\ iter = 0
  /\ this_validation_loss = Inf
  /\ pc = "while"
  /\ train_calls = 0
  /\ slice = <<0, 0>>
  /\ hist = <<>>
  /\ ev = <<>>

\* while (epoch < n_epochs) and (not done_looping): epoch = epoch + 1; for ...
WhileTest ==
  /\ pc = "while"
  /\ IF WhileCond(epoch, n_epochs, done_looping)
       THEN /\ epoch' = epoch + 1
            /\ minibatch_index' = 0
            /\ pc' = IF RangeHasNext(0, n_train_batches) THEN "train" ELSE "while"
       ELSE /\ pc' = "done"
            /\ UNCHANGED <<epoch, minibatch_index>>
  /\ UNCHANGED <<inputs, patience, best_validation_loss, best_iter, test_score,
                 done_looping, iter, this_validation_loss, train_calls, slice,
                 hist, ev>>

\* iter = ...; cost_ij = train_fn(...); if (iter + 1) % validation_frequency == 0
Train ==
  /\ pc = "train"
  /\ iter' = IterOf(epoch, minibatch_index, n_train_batches)
  /\ train_calls' = train_calls + 1
  /\ slice' = TrainSlice(minibatch_index, batch_size, train_size)
  /\ ev' = <<"train">>
  /\ pc' = IF validation_frequency = 0 THEN "ZeroDivisionError"
           ELSE IF IsCheckpoint(iter', validation_frequency) THEN "validate"
           ELSE "patience"
  /\ UNCHANGED <<inputs, patience, best_validation_loss, best_iter, test_score,
                 epoch, done_looping, minibatch_index, this_validation_loss,
                 hist>>

\* this_validation_loss = np.mean(validation_losses); if new best: patience,
\* best_validation_loss, best_iter
Validate ==
  /\ pc = "validate"
  /\ \E loss \in Losses :
       /\ this_validation_loss' = loss
       /\ hist' = Append(hist, [iter |-> iter, loss |-> loss, tested |-> FALSE,
                                test |-> 0])
       /\ ev' = Append(ev, "valid")
       /\ IF IsNewBest(loss, best_validation_loss)
            THEN /\ patience' = IF IsSignificant(loss, best_validation_loss)
                                  THEN NewPatience(patience, iter)
                                  ELSE patience
                 /\ best_validation_loss' = loss
                 /\ best_iter' = iter
                 /\ pc' = "test"
            ELSE /\ pc' = "patience"
                 /\ UNCHANGED <<patience, best_validation_loss, best_iter>>
  /\ UNCHANGED <<inputs, test_score, epoch, done_looping, minibatch_index, iter,
                 train_calls, slice>>

\* test_score = np.mean(test_losses)
Test ==
  /\ pc = "test"
  /\ \E t \in TestScores :
       /\ test_score' = t
       /\ hist' = [hist EXCEPT ![Len(hist)] =
                     [@ EXCEPT !.tested = TRUE, !.test = t]]
  /\ ev' = Append(ev, "test")
  /\ pc' = "patience"
  /\ UNCHANGED <<inputs, patience, best_validation_loss, best_iter, epoch,
                 done_looping, minibatch_index, iter, this_validation_loss,
                 train_calls, slice>>

\* if patience <= iter: done_looping = True; break -- else next minibatch
PatienceTest ==
  /\ pc = "patience"
  /\ ev' = Append(ev, "patience")
  /\ IF PatienceExhausted(patience, iter)
       THEN /\ done_looping' = TRUE
            /\ pc' = "while"
            /\ UNCHANGED minibatch_index
       ELSE /\ minibatch_index' = minibatch_index + 1
            /\ pc' = IF RangeHasNext(minibatch_index + 1, n_train_batches)
                       THEN "train" ELSE "while"
            /\ UNCHANGED done_looping
  /\ UNCHANGED <<inputs, patience, best_validation_loss, best_iter, test_score,
                 epoch, iter, this_validation_loss, train_calls, slice, hist>>

Next == WhileTest \/ Train \/ Validate \/ Test \/ PatienceTest

Spec == Init /\ [][Next]_vars

\* the interpreter always takes the next step of the loop
FairSpec == Init /\ [][Next]_vars /\ WF_vars(Next)

\* ---- helpers of the properties ----

\* indices of the checkpoints validated so far
Checkpoints == 1..Len(hist)

\* the validation at checkpoint k was lower than every earlier one
SetNewBest(k) == \A j \in 1..(k - 1) : hist[j].loss > hist[k].loss

\* the current iteration has passed its train_fn call
InIteration == pc \in {"validate", "test", "patience"}

\* ---- C1 ----
\* C1: once a minibatch iteration finishes with patience <= iter,
\* done_looping is set and the inner loop is left; from then on the only step
\* is the exit of the while loop: no train_fn call, no validation, no test
\* evaluation and no new epoch, even when epoch < n_epochs.
C1_EarlyStopping ==
  [][ /\ (pc = "patience" /\ patience <= iter)
          => (done_looping' /\ pc' = "while")
      /\ done_looping
          => /\ pc' = "done"
             /\ done_looping'
             /\ train_calls' = train_calls
             /\ hist' = hist
             /\ epoch' = epoch ]_vars

\* a run stopped by patience with epochs left
C1_Witness == pc = "done" /\ done_looping /\ epoch < n_epochs

\* ---- C2 ----
\* C2 (as stated): the recorded best model is the checkpoint with the lowest
\* test error among all checkpoints evaluated so far.
C2_BestByTestError ==
  pc # "test" =>
    \A k \in Checkpoints : hist[k].tested => test_score <= hist[k].test

\* C2 (amended): the recorded best model is the checkpoint with the lowest
\* validation error among all checkpoints evaluated so far, and test_score
\* is the test error measured at that checkpoint (outside the step between
\* the update of best_iter and the test evaluation).
C2_BestByValidationError ==
  (pc # "test" /\ hist # <<>>) =>
    \E i \in Checkpoints :
      /\ hist[i].iter = best_iter
      /\ hist[i].tested
      /\ hist[i].test = test_score
      /\ \A j \in Checkpoints : hist[i].loss <= hist[j].loss

\* the best model is a later checkpoint whose test error is higher than an
\* earlier one's
C2_Witness ==
  /\ pc = "patience"
  /\ Len(hist) >= 2
  /\ hist[Len(hist)].iter = best_iter
  /\ hist[Len(hist)].tested
  /\ hist[1].test < test_score

\* ---- C3 ----
\* C3 (as stated): for every n_train_batches >= 1 validation happens exactly
\* at the last minibatch of every epoch.
C3_EveryEpochAnyBatches ==
  /\ pc = "validate" => minibatch_index = n_train_batches - 1
  /\ (pc = "patience" /\ minibatch_index = n_train_batches - 1)
       => Len(ev) >= 2

\* C3 (amended): for 1 <= n_train_batches <= 5000 (patience // 2) the
\* validation error is evaluated exactly once per epoch, right after the
\* train_fn call of the last minibatch, and at no other iteration.
C3_EveryEpoch ==
  (n_train_batches >= 1 /\ n_train_batches <= 5000) =>
    /\ pc = "validate" => (minibatch_index = n_train_batches - 1 /\ ev = <<"train">>)
    /\ (pc = "patience" /\ minibatch_index = n_train_batches - 1)
         => (Len(ev) >= 2 /\ ev[2] = "valid" /\ Len(hist) = epoch)
    /\ \A k \in Checkpoints : hist[k].iter = k * n_train_batches - 1

\* third epoch validated at its last minibatch of a multi-batch epoch
C3_Witness ==
  /\ n_train_batches > 1
  /\ n_train_batches <= 5000
  /\ pc = "patience"
  /\ minibatch_index = n_train_batches - 1
  /\ Len(hist) = 3

\* ---- C4 ----
\* C4: the patience stop is never taken at an iteration below 10000, so a
\* run with n_epochs * n_train_batches > 10000 makes at least 10000 train_fn
\* calls before it ends.
C4_InitialPatience ==
  /\ done_looping => (iter >= 10000 /\ train_calls > 10000)
  /\ (pc = "done" /\ n_epochs * n_train_batches > 10000)
       => train_calls >= 10000

\* a run stopped by patience
C4_Witness == pc = "done" /\ done_looping /\ train_calls > 10000

C6_PatienceFrame ==
  [][ /\ patience' # patience
          => /\ pc = "validate"
             /\ \/ best_validation_loss = Inf
                \/ 1000 * this_validation_loss' < 995 * best_validation_loss
      /\ (/\ pc = "validate"
          /\ pc' # "validate"
          /\ best_validation_loss # Inf
          /\ this_validation_loss' < best_validation_loss
          /\ ~(1000 * this_validation_loss' < 995 * best_validation_loss))
          => /\ patience' = patience
             /\ best_validation_loss' = this_validation_loss'
             /\ best_iter' = iter
             /\ pc' = "test"
      /\ (pc = "test" /\ pc' # "test")
          => /\ hist'[Len(hist')].tested
             /\ test_score' = hist'[Len(hist')].test
             /\ UNCHANGED <<patience, best_validation_loss, best_iter>>
      /\ (/\ pc = "validate"
          /\ pc' # "validate"
          /\ best_validation_loss # Inf
          /\ ~(this_validation_loss' < best_validation_loss))
          => /\ UNCHANGED <<patience, best_validation_loss, best_iter,
                            test_score>>
             /\ pc' = "patience" ]_vars

\* a new best below the threshold has been recorded and tested, at an
\* iteration where a raise would have changed patience
C6_Witness ==
  /\ pc = "patience"
  /\ ev = <<"train", "valid", "test">>
  /\ best_iter = iter
  /\ patience < 2 * iter

\* ---- C7 ----
\* C7: after every checkpoint best_validation_loss is the minimum of the
\* validation losses so far, best_iter is the earliest iteration that
\* attained it, test_score is the test error computed at best_iter, and the
\* test set was evaluated at exactly the checkpoints that set a new best.
C7_BestTracking ==
  (pc # "test" /\ hist # <<>>) =>
    /\ \E i \in Checkpoints :
         /\ hist[i].loss = best_validation_loss
         /\ \A j \in Checkpoints : best_validation_loss <= hist[j].loss
         /\ \A j \in 1..(i - 1) : hist[j].loss # best_validation_loss
         /\ hist[i].iter = best_iter
         /\ hist[i].test = test_score
    /\ \A k \in Checkpoints : hist[k].tested <=> SetNewBest(k)

\* a tie that did not replace the best, followed by a new best
C7_Witness ==
  /\ pc = "patience"
  /\ Len(hist) = 4
  /\ hist[1].loss = hist[2].loss
  /\ hist[3].loss < hist[2].loss
  /\ hist[4].loss = hist[3].loss
  /\ best_iter = hist[3].iter

\* ---- C8 ----
\* C8: every run terminates; epoch never exceeds n_epochs, train_fn is
\* called at most n_epochs * n_train_batches times, and with
\* n_train_batches = 0 there is no train_fn or valid_fn call, the modulo by
\* validation_frequency = 0 is never evaluated and the results keep their
\* initial values.
C8_Termination ==
  /\ <>(pc = "done")
  /\ [](/\ epoch <= n_epochs
        /\ train_calls <= n_epochs * n_train_batches
        /\ pc # "ZeroDivisionError"
        /\ n_train_batches = 0
             => /\ train_calls = 0
                /\ hist = <<>>
                /\ best_validation_loss = Inf
                /\ best_iter = 0
                /\ test_score = 0)

\* a finished run over a training set smaller than one batch
C8_Witness ==
  /\ pc = "done"
  /\ n_train_batches = 0
  /\ train_size > 0
  /\ validation_frequency = 0
  /\ epoch = n_epochs
  /\ n_epochs > 1

\* ---- C9 ----
\* C9: iter counts the train_fn calls 0, 1, 2, ... without gap or repeat,
\* each iteration trains once on the slice of minibatch minibatch_index,
\* which lies within the first n_train_batches * batch_size examples, and
\* the events of an iteration are train, then validation (only at a
\* checkpoint), then test (only after a new best), then the patience test.
C9_Ordered ==
  /\ InIteration =>
       /\ iter = train_calls - 1
       /\ iter = (epoch - 1) * n_train_batches + minibatch_index
       /\ slice = <<minibatch_index * batch_size,
                    (minibatch_index + 1) * batch_size>>
       /\ slice[2] <= n_train_batches * batch_size
       /\ n_train_batches * batch_size <= train_size
  /\ ev \in {<<>>, <<"train">>, <<"train", "valid">>,
             <<"train", "valid", "test">>,
             <<"train", "patience">>, <<"train", "valid", "patience">>,
             <<"train", "valid", "test", "patience">>}
  /\ (Len(ev) >= 2 /\ ev[2] = "valid")
       => (iter + 1) % validation_frequency = 0
  /\ (Len(ev) >= 3 /\ ev[3] = "test")
       => (best_iter = iter /\ SetNewBest(Len(hist)))
  /\ (pc = "patience" /\ (iter + 1) % validation_frequency = 0)
       => (Len(ev) >= 2 /\ (SetNewBest(Len(hist)) => Len(ev) = 3))

\* a tested checkpoint in the first minibatch of a later epoch
C9_Witness ==
  /\ pc = "patience"
  /\ epoch >= 2
  /\ batch_size = 2
  /\ ev = <<"train", "valid", "test">>
  /\ train_calls = epoch
====
